---- MODULE Spec2Model ----
(***************************************************************************)
(* stuiplot: read s-tui csv logs, reduce every metric to its cross-core   *)
(* mean, optionally align the time axis on the first row whose            *)
(* utilization exceeds a threshold, and plot a 3 x N grid of panels.       *)
(*                                                                         *)
(* Floats are modelled as exact rationals [n, d] (d > 0, lowest terms);   *)
(* NaN is the record [n |-> 0, d |-> 0].  Timestamps are whole seconds.    *)
(* Column names are sequences of characters so that the regular           *)
(* expressions of the aggregators are matched character by character.     *)
(***************************************************************************)
EXTENDS Integers, Sequences, FiniteSets

VARIABLES
    disk,        \* the file system: path -> the frame read_csv yields for it
    args,        \* the parsed command line (parse_args)
    pc,          \* position of the run: "main", "loop", "done", "raised"
    k,           \* main: index of the next path of args.log to read
    log_frames,  \* main: the dict label -> frame, in insertion order
    axs,         \* plot_stui_logs: the grid of axes, (row, column) -> axes
    shape,       \* plot_stui_logs: <<rows, columns>> of the grid
    ax_column,   \* plot_stui_logs: the loop variable
    frame_vars,  \* _plot_stui_log: the locals of the latest call
    sink,        \* the calls made to fig.savefig / plt.show, in order
    error        \* the exception that ended the run, "None" while there is none

vars == <<disk, args, pc, k, log_frames, axs, shape, ax_column, frame_vars, sink, error>>

(***************************************************************************)
(* Bounds of the model.                                                    *)
(***************************************************************************)
MaxRows == 2
MaxLogs == 2
MaxMinutes == 7

(***************************************************************************)
(* Optional values: None is the empty sequence, Some(v) is <<v>>.          *)
(***************************************************************************)
None == <<>>
Some(v) == <<v>>

(***************************************************************************)
(* Floats.                                                                 *)
(***************************************************************************)
NaN == [n |-> 0, d |-> 0]

Abs(x) == IF x < 0 THEN -x ELSE x

RECURSIVE GCD(_, _)
GCD(a, b) == IF b = 0 THEN a ELSE GCD(b, a % b)

\* n / d for integers n and d > 0, in lowest terms.
Ratio(n, d) ==
    LET g == GCD(Abs(n), d)
    IN  [n |-> n \div g, d |-> d \div g]

Float(i) == Ratio(i, 1)

IsNaN(x) == x.d = 0

\* x + y of two floats that are not NaN.
FloatAdd(x, y) == Ratio(x.n * y.d + y.n * x.d, x.d * y.d)

\* x / c for a float x that is not NaN and an integer c > 0.
FloatDiv(x, c) == Ratio(x.n, x.d * c)

\* x > y as IEEE floats compare: false as soon as one side is NaN.
FloatGt(x, y) == ~IsNaN(x) /\ ~IsNaN(y) /\ x.n * y.d > y.n * x.d

(***************************************************************************)
(* Column names and the regular expressions of the three aggregators.     *)
(***************************************************************************)
Digits == {"0", "1", "2", "3", "4", "5", "6", "7", "8", "9"}

\* re.fullmatch(prefix \d+ suffix, c)
FullMatch(prefix, suffix, c) ==
    /\ Len(c) > Len(prefix) + Len(suffix)
    /\ SubSeq(c, 1, Len(prefix)) = prefix
    /\ SubSeq(c, Len(c) - Len(suffix) + 1, Len(c)) = suffix
    /\ \A i \in (Len(prefix) + 1)..(Len(c) - Len(suffix)) : c[i] \in Digits

PatternFreq == [prefix |-> <<"F","r","e","q","u","e","n","c","y",":","C","o","r","e"," ">>,
                suffix |-> <<>>]
PatternTemp == [prefix |-> <<"T","e","m","p",":","C","o","r","e">>,
                suffix |-> <<",","0">>]
PatternUtil == [prefix |-> <<"U","t","i","l",":","C","o","r","e"," ">>,
                suffix |-> <<>>]

UtilAvg == <<"U","t","i","l",":","A","v","g">>

(***************************************************************************)
(* Frames: [columns, index, data].  columns is the header without the     *)
(* index column, index the timestamps in seconds, data[i][j] the float of *)
(* row i in column j.  Sequences are 1-based; row and column numbers that *)
(* the program computes (load_start_index, ax_column) are kept 0-based.    *)
(***************************************************************************)
NRows(log_frame) == Len(log_frame.index)

HasColumn(log_frame, c) == \E j \in 1..Len(log_frame.columns) : log_frame.columns[j] = c

\* log_frame[c]: the values of the column named c, one per row.
Column(log_frame, c) ==
    LET j == CHOOSE j \in 1..Len(log_frame.columns) : log_frame.columns[j] = c
    IN  [i \in 1..NRows(log_frame) |-> log_frame.data[i][j]]

\* [c for c in log_frame.columns if re.fullmatch(pattern, c)]
MatchingColumns(log_frame, pattern) ==
    SelectSeq(log_frame.columns, LAMBDA c : FullMatch(pattern.prefix, pattern.suffix, c))

\* The sum and the count of the values that are not NaN (skipna).
RECURSIVE NanSum(_)
NanSum(values) ==
    IF values = <<>> THEN [sum |-> Float(0), count |-> 0]
    ELSE LET rest == NanSum(Tail(values))
         IN  IF IsNaN(Head(values)) THEN rest
             ELSE [sum |-> FloatAdd(Head(values), rest.sum), count |-> rest.count + 1]

\* RowMean without skipna: one missing value makes the mean of the row NaN.
RowMeanNoSkip(values) ==
    IF values = <<>> \/ \E j \in 1..Len(values) : IsNaN(values[j]) THEN NaN
    ELSE FloatDiv(NanSum(values).sum, Len(values))

\* The mean of one row of DataFrame.mean(axis=1).
RowMean(values) ==
    LET s == NanSum(values)
    IN  IF s.count = 0 THEN NaN ELSE FloatDiv(s.sum, s.count)

\* log_frame[columns].mean(axis=1)
MeanSeries(log_frame, columns) ==
    [i \in 1..NRows(log_frame) |->
        RowMean([j \in 1..Len(columns) |-> Column(log_frame, columns[j])[i]])]

get_mean_series_freq(log_frame) ==
    MeanSeries(log_frame, MatchingColumns(log_frame, PatternFreq))

get_mean_series_temp(log_frame) ==
    MeanSeries(log_frame, MatchingColumns(log_frame, PatternTemp))

get_mean_series_util(log_frame) ==
    MeanSeries(log_frame, MatchingColumns(log_frame, PatternUtil))

(***************************************************************************)
(* _plot_stui_log: the time axis.                                          *)
(***************************************************************************)
\* OverThreshold with >= in the place of >.
OverThresholdOrEqual(series, align_threshold) ==
    [i \in 1..Len(series) |->
        FloatGt(series[i], Float(align_threshold)) \/ series[i] = Float(align_threshold)]

\* series > align_threshold, element by element.
OverThreshold(series, align_threshold) ==
    [i \in 1..Len(series) |-> FloatGt(series[i], Float(align_threshold))]

\* np.any(over_threshold)
Any(over_threshold) == \E i \in 1..Len(over_threshold) : over_threshold[i]

\* FirstTrue taking the last element of np.where(over_threshold)[0].
LastTrue(over_threshold) ==
    (CHOOSE i \in 1..Len(over_threshold) :
        over_threshold[i] /\ \A j \in (i + 1)..Len(over_threshold) : ~over_threshold[j]) - 1

\* np.where(over_threshold)[0][0], 0-based; only evaluated when Any(over_threshold).
FirstTrue(over_threshold) ==
    (CHOOSE i \in 1..Len(over_threshold) :
        over_threshold[i] /\ \A j \in 1..(i - 1) : ~over_threshold[j]) - 1

\* Minutes with load_start_time taken from the first row whatever the reference.
MinutesFromFirstRow(log_frame, load_start_index) ==
    [i \in 1..NRows(log_frame) |-> Ratio(log_frame.index[i] - log_frame.index[1], 60)]

\* (log_frame.index - load_start_time).total_seconds() / 60
Minutes(log_frame, load_start_index) ==
    [i \in 1..NRows(log_frame) |->
        Ratio(log_frame.index[i] - log_frame.index[load_start_index + 1], 60)]

\* The series the threshold is compared with.
ScannedSeries(log_frame) == Column(log_frame, UtilAvg)

\* The locals of _plot_stui_log up to the computation of minutes, and the
\* exception raised on the way, if any.
Locals(log_frame, align_threshold) ==
    LET base == [values_util |-> get_mean_series_util(log_frame),
                 values_freq |-> get_mean_series_freq(log_frame),
                 values_temp |-> get_mean_series_temp(log_frame),
                 over_threshold |-> None,
                 load_start_index |-> None,
                 minutes_min |-> None,
                 minutes |-> None,
                 raised |-> "None"]
        Indexed(b, i, m) ==
            IF i >= NRows(log_frame)
            THEN [b EXCEPT !.load_start_index = Some(i), !.minutes_min = Some(m),
                           !.raised = "IndexError"]
            ELSE [b EXCEPT !.load_start_index = Some(i), !.minutes_min = Some(m),
                           !.minutes = Some(Minutes(log_frame, i))]
    IN  IF align_threshold # None
        THEN IF ~HasColumn(log_frame, UtilAvg)
             THEN [base EXCEPT !.raised = "KeyError"]
             ELSE LET over == OverThreshold(ScannedSeries(log_frame), align_threshold[1])
                      b == [base EXCEPT !.over_threshold = Some(over)]
                  IN  IF ~Any(over)
                      THEN [b EXCEPT !.raised = "ValueError"]
                      ELSE Indexed(b, FirstTrue(over), -1)
        ELSE Indexed(base, 0, 0)

(***************************************************************************)
(* Axes and the grid of plt.subplots(3, n, sharex="col", sharey="row").    *)
(* The grid is a function (row, column) -> axes with 0-based coordinates.  *)
(* A limit, label, tick list or title that was never set is None.          *)
(***************************************************************************)
NewAxes == [lines |-> <<>>, ylabel |-> None, grid |-> FALSE, ylim |-> None,
            xlim |-> None, xlabel |-> None, xticks |-> None, xticks_minor |-> None,
            title |-> None]

\* plt.subplots(nrows, ncols, ...), after axs[:, np.newaxis] for one column.
Subplots(nrows, ncols) == [rc \in (0..(nrows - 1)) \X (0..(ncols - 1)) |-> NewAxes]

\* ax.plot(minutes, values, label="Core average", linewidth=line_width); ax.grid()
PlotLine(grid, r, c, minutes, values, line_width) ==
    [grid EXCEPT ![<<r, c>>].lines =
                     Append(@, [x |-> minutes, y |-> values, label |-> "Core average",
                                linewidth |-> line_width]),
                 ![<<r, c>>].grid = TRUE]

\* ax.set_ylabel(label)
SetYLabel(grid, r, c, label) == [grid EXCEPT ![<<r, c>>].ylabel = Some(label)]

\* ax.set_ylim(lo, hi) on the axes at (r, c): sharey="row" moves the whole row.
SetYLim(grid, r, c, lo, hi) ==
    [rc \in DOMAIN grid |->
        IF rc[1] = r THEN [grid[rc] EXCEPT !.ylim = Some(<<lo, hi>>)] ELSE grid[rc]]

\* SetXLim with the lower limit left at 0.
SetXLimFromZero(grid, r, c, lo, hi) ==
    [rc \in DOMAIN grid |->
        IF rc[2] = c THEN [grid[rc] EXCEPT !.xlim = Some(<<0, hi>>)] ELSE grid[rc]]

\* ax.set_xlim(lo, hi) on the axes at (r, c): sharex="col" moves the whole column.
SetXLim(grid, r, c, lo, hi) ==
    [rc \in DOMAIN grid |->
        IF rc[2] = c THEN [grid[rc] EXCEPT !.xlim = Some(<<lo, hi>>)] ELSE grid[rc]]

\* ax.set_xlabel(label)
SetXLabel(grid, r, c, label) == [grid EXCEPT ![<<r, c>>].xlabel = Some(label)]

\* ax.set_xticks(ticks, minor=minor): the tickers are shared along the column.
SetXTicks(grid, r, c, ticks, minor) ==
    [rc \in DOMAIN grid |->
        IF rc[2] # c THEN grid[rc]
        ELSE IF minor THEN [grid[rc] EXCEPT !.xticks_minor = Some(ticks)]
             ELSE [grid[rc] EXCEPT !.xticks = Some(ticks)]]

\* ax.set_title(label, fontsize="small")
SetTitle(grid, r, c, label) == [grid EXCEPT ![<<r, c>>].title = Some(label)]

\* range(start, stop, step) for step > 0, as the sequence of its elements.
Range(start, stop, step) ==
    LET n == IF stop > start THEN (stop - start + step - 1) \div step ELSE 0
    IN  [i \in 1..n |-> start + (i - 1) * step]

major_div == 5

\* major_range_max = (minutes_max // major_div) * major_div + 1
MajorRangeMax(minutes_max) == (minutes_max \div major_div) * major_div + 1

\* The two set_xticks calls of _plot_stui_log on ax_last.
MajorTicks(minutes_max) == Range(0, MajorRangeMax(minutes_max), major_div)

MinorTicks(minutes_max) == Range(0, MajorRangeMax(minutes_max), 1)

\* _plot_stui_log from the for loop to its end, for a call that did not raise:
\* the grid after the call. ax_util, ax_freq, ax_temp are rows 0, 1, 2 of column c.
PlotPanels(grid, c, locals, write_ylabel, minutes_max, line_width) ==
    LET minutes == locals.minutes[1]
        Panel(g, r, values, label) ==
            LET plotted == PlotLine(g, r, c, minutes, values, line_width)
            IN  IF write_ylabel THEN SetYLabel(plotted, r, c, label) ELSE plotted
        g1 == Panel(grid, 0, locals.values_util, "Utilization, %")
        g2 == Panel(g1, 1, locals.values_freq, "Frequency, MHz")
        g3 == Panel(g2, 2, locals.values_temp, "Temperature, C")
        g4 == SetYLim(g3, 0, c, -2, 102)
        g5 == SetYLim(g4, 1, c, 0, 5000)
        g6 == SetYLim(g5, 2, c, 25, 110)
        g7 == SetXLim(g6, 2, c, locals.minutes_min[1], minutes_max)
        g8 == SetXLabel(g7, 2, c, "Time, minutes")
        g9 == SetXTicks(g8, 2, c, MajorTicks(minutes_max), FALSE)
    IN  SetXTicks(g9, 2, c, MinorTicks(minutes_max), TRUE)

(***************************************************************************)
(* main: paths, read_log and the dict of frames.                           *)
(***************************************************************************)
\* Path.name: the last component of the path.
Name(path) == path[Len(path)]

\* read_log(path)
read_log(fs, path) == fs[path]

\* d[key] = value on a dict kept as the sequence of its items in insertion
\* order: a key already present keeps its place and takes the new value.
DictSet(d, key, value) ==
    IF \E i \in 1..Len(d) : d[i].key = key
    THEN [i \in 1..Len(d) |-> IF d[i].key = key THEN [key |-> key, value |-> value] ELSE d[i]]
    ELSE Append(d, [key |-> key, value |-> value])

(***************************************************************************)
(* The inputs: column names, frames, the files on disk, the command line.  *)
(***************************************************************************)
\* The per-core column names of s-tui for the core whose number has the digits ds.
UtilCore(ds) == PatternUtil.prefix \o ds
FreqCore(ds) == PatternFreq.prefix \o ds
TempCore(ds) == PatternTemp.prefix \o ds \o PatternTemp.suffix

\* Names that look like per-core columns and are none.
FreqNoDigit == <<"F","r","e","q","u","e","n","c","y",":","C","o","r","e">>
TempSpaced == <<"T","e","m","p",":","C","o","r","e"," ","0">>
UtilSuffixed == UtilCore(<<"1">>) \o <<"x">>

\* A row of floats from the cells of a csv row: <<i>> holds the number i, an
\* empty cell is read as NaN.
EmptyCell == <<>>

Floats(row) ==
    [j \in 1..Len(row) |-> IF row[j] = EmptyCell THEN NaN ELSE Float(row[j][1])]

Frame(columns, index, rows) ==
    [columns |-> columns, index |-> index,
     data |-> [i \in 1..Len(rows) |-> Floats(rows[i])]]

\* Utilization 1, 2, 7, 9, 3; three frequency cores with missing values.
FrameLoad ==
    Frame(<<UtilAvg, UtilCore(<<"0">>), UtilCore(<<"1">>),
            FreqCore(<<"0">>), FreqCore(<<"1">>), FreqCore(<<"1", "0">>), TempCore(<<"0">>), TempCore(<<"1">>)>>,
          <<0, 60, 120, 180, 240>>,
          << <<<<1>>, <<0>>, <<2>>, <<10>>, <<20>>, <<30>>, <<40>>, <<41>>>>,
             <<<<2>>, <<2>>, <<2>>, <<10>>, EmptyCell, <<30>>, <<40>>, <<45>>>>,
             <<<<7>>, <<6>>, <<8>>, EmptyCell, EmptyCell, EmptyCell, <<60>>, EmptyCell>>,
             <<<<9>>, <<10>>, <<8>>, <<30>>, <<30>>, <<31>>, EmptyCell, EmptyCell>>,
             <<<<3>>, <<2>>, <<4>>, <<10>>, <<10>>, <<10>>, <<50>>, <<51>>>> >>)

\* A later session whose second row is the first above either threshold.
FrameLater ==
    Frame(<<UtilAvg, UtilCore(<<"0">>), FreqCore(<<"0">>), TempCore(<<"0">>)>>,
          <<1000, 1090, 1180>>,
          << <<<<2>>, <<2>>, <<800>>, <<40>>>>,
             <<<<7>>, <<7>>, <<3000>>, <<60>>>>,
             <<<<9>>, <<9>>, <<3200>>, <<70>>>> >>)

\* Utilization never above 2.
FrameIdle ==
    Frame(<<UtilAvg, UtilCore(<<"0">>), FreqCore(<<"0">>), TempCore(<<"0">>)>>,
          <<500, 560, 620>>,
          << <<<<1>>, <<1>>, <<800>>, <<40>>>>,
             <<<<2>>, <<2>>, <<800>>, <<40>>>>,
             <<EmptyCell, <<2>>, <<800>>, <<40>>>> >>)

\* No Util:Avg column.
FrameNoAvg ==
    Frame(<<UtilCore(<<"0">>), UtilCore(<<"1">>), FreqCore(<<"0">>), TempCore(<<"0">>)>>,
          <<0, 60>>,
          << <<<<7>>, <<9>>, <<800>>, <<40>>>>,
             <<<<9>>, <<9>>, <<900>>, <<50>>>> >>)

\* A header and no rows.
FrameEmpty ==
    Frame(<<UtilAvg, UtilCore(<<"0">>), FreqCore(<<"0">>), TempCore(<<"0">>)>>, <<>>, <<>>)

\* No column matches the frequency or the temperature pattern.
FrameNoFreq ==
    Frame(<<UtilAvg, UtilCore(<<"0">>), UtilSuffixed, FreqNoDigit, TempSpaced>>,
          <<0, 60>>,
          << <<<<7>>, <<7>>, <<50>>, <<800>>, <<40>>>>,
             <<<<9>>, <<9>>, <<50>>, <<900>>, <<50>>>> >>)

\* Timestamps that go back in time.
FrameUnsorted ==
    Frame(<<UtilAvg, UtilCore(<<"0">>), FreqCore(<<"0">>), TempCore(<<"0">>)>>,
          <<120, 0, 60>>,
          << <<<<2>>, <<2>>, <<800>>, <<40>>>>,
             <<<<2>>, <<2>>, <<800>>, <<40>>>>,
             <<<<7>>, <<7>>, <<800>>, <<40>>>> >>)

PathA == <<"a", "s-tui.csv">>
PathB == <<"b", "s-tui.csv">>

Files ==
    { <<PathA, FrameLoad>>, <<PathB, FrameLater>>,
      <<<<"a", "idle.csv">>, FrameIdle>>, <<<<"a", "noavg.csv">>, FrameNoAvg>>,
      <<<<"a", "empty.csv">>, FrameEmpty>>, <<<<"b", "nofreq.csv">>, FrameNoFreq>>,
      <<<<"b", "unsorted.csv">>, FrameUnsorted>> }

Paths == {f[1] : f \in Files}

Disk == [p \in Paths |-> (CHOOSE f \in Files : f[1] = p)[2]]

\* Every frame of at most MaxRows rows, one sample every 90 seconds, over the
\* columns Util:Avg, Util:Core 0, Util:Core 1, Frequency:Core 0, Temp:Core0,0.
CellsAvg == {EmptyCell, <<2>>, <<7>>}
CellsCore0 == {EmptyCell, <<2>>, <<7>>}
CellsCore1 == {EmptyCell, <<7>>}

RowChoices == {<<a, c0, c1, <<800>>, <<50>>>> : a \in CellsAvg, c0 \in CellsCore0, c1 \in CellsCore1}

GeneratedFrames ==
    UNION { { Frame(<<UtilAvg, UtilCore(<<"0">>), UtilCore(<<"1">>), FreqCore(<<"0">>), TempCore(<<"0">>)>>,
                    [i \in 1..n |-> (i - 1) * 90], rows) : rows \in [1..n -> RowChoices] }
            : n \in 0..MaxRows }

Frames == GeneratedFrames \cup {f[2] : f \in Files}

AlignThresholds == {None, Some(2), Some(5)}
FigurePaths == {None, Some(<<"out", "figure.png">>)}
DefaultMinutes == 15

\* The sequences of 1..n elements of S.
SeqsUpTo(S, n) == UNION {[1..m -> S] : m \in 1..n}

(***************************************************************************)
(* The run: main reads the logs into the dict, plot_stui_logs creates the  *)
(* grid, plots one log per iteration and hands the figure to the sink.     *)
(***************************************************************************)
InitRun ==
    /\ pc = "main"
    /\ k = 1
    /\ log_frames = <<>>
    /\ axs = None
    /\ shape = None
    /\ ax_column = 0
    /\ frame_vars = None
    /\ sink = <<>>
    /\ error = "None"

\* Any command line over the files on disk.
Init ==
    /\ disk = Disk
    /\ args \in [log : SeqsUpTo(Paths, MaxLogs), figure_path : FigurePaths,
                 align_threshold : AlignThresholds, minutes : 0..MaxMinutes]
    /\ InitRun

\* One log of any content, default minutes.
InitLog ==
    /\ disk \in {[p \in {PathA} |-> f] : f \in Frames}
    /\ args \in [log : {<<PathA>>}, figure_path : FigurePaths,
                 align_threshold : AlignThresholds, minutes : {DefaultMinutes}]
    /\ InitRun

\* main: one step of the dict comprehension.
ReadLog ==
    /\ pc = "main"
    /\ k <= Len(args.log)
    /\ log_frames' = DictSet(log_frames, Name(args.log[k]), read_log(disk, args.log[k]))
    /\ k' = k + 1
    /\ UNCHANGED <<disk, args, pc, axs, shape, ax_column, frame_vars, sink, error>>

\* plot_stui_logs up to the for loop.
CreateGrid ==
    /\ pc = "main"
    /\ k > Len(args.log)
    /\ axs' = Subplots(3, Len(log_frames))
    /\ shape' = <<3, Len(log_frames)>>
    /\ ax_column' = 0
    /\ pc' = "loop"
    /\ UNCHANGED <<disk, args, k, log_frames, frame_vars, sink, error>>

\* The locals of the call _plot_stui_log makes for the current column.
CurrentLocals == Locals(log_frames[ax_column + 1].value, args.align_threshold)

\* One iteration of the for loop whose call of _plot_stui_log returns.
PlotLog ==
    /\ pc = "loop"
    /\ ax_column < Len(log_frames)
    /\ CurrentLocals.raised = "None"
    /\ frame_vars' = CurrentLocals
    /\ axs' = SetTitle(PlotPanels(axs, ax_column, CurrentLocals, ax_column = 0,
                                  args.minutes, Ratio(1, 2)),
                       0, ax_column, log_frames[ax_column + 1].key)
    /\ ax_column' = ax_column + 1
    /\ UNCHANGED <<disk, args, pc, k, log_frames, shape, sink, error>>

\* PlotLogRaises with the exception swallowed: the loop goes on to the next log.
PlotLogSkips ==
    /\ pc = "loop"
    /\ ax_column < Len(log_frames)
    /\ CurrentLocals.raised # "None"
    /\ frame_vars' = CurrentLocals
    /\ ax_column' = ax_column + 1
    /\ UNCHANGED <<disk, args, pc, k, log_frames, axs, shape, sink, error>>

\* One iteration of the for loop whose call of _plot_stui_log raises: the
\* exception leaves plot_stui_logs and main.
PlotLogRaises ==
    /\ pc = "loop"
    /\ ax_column < Len(log_frames)
    /\ CurrentLocals.raised # "None"
    /\ frame_vars' = CurrentLocals
    /\ error' = CurrentLocals.raised
    /\ pc' = "raised"
    /\ UNCHANGED <<disk, args, k, log_frames, axs, shape, ax_column, sink>>

\* if figure_path: fig.savefig(figure_path)
Savefig ==
    /\ pc = "loop"
    /\ ax_column = Len(log_frames)
    /\ args.figure_path # None
    /\ sink' = Append(sink, [call |-> "savefig", path |-> args.figure_path])
    /\ pc' = "done"
    /\ UNCHANGED <<disk, args, k, log_frames, axs, shape, ax_column, frame_vars, error>>

\* else: plt.show()
Show ==
    /\ pc = "loop"
    /\ ax_column = Len(log_frames)
    /\ args.figure_path = None
    /\ sink' = Append(sink, [call |-> "show", path |-> None])
    /\ pc' = "done"
    /\ UNCHANGED <<disk, args, k, log_frames, axs, shape, ax_column, frame_vars, error>>

Next == ReadLog \/ CreateGrid \/ PlotLog \/ PlotLogRaises \/ Savefig \/ Show

Spec == Init /\ [][Next]_vars

SpecLog == InitLog /\ [][Next]_vars

(***************************************************************************)
(* Vocabulary of the properties.                                           *)
(***************************************************************************)
\* _plot_stui_log has been called at least once.
Called == frame_vars # None

\* The frame of the latest call of _plot_stui_log.
LastFrame ==
    IF pc = "raised" THEN log_frames[ax_column + 1].value ELSE log_frames[ax_column].value

Aligned == args.align_threshold # None

\* The float x is a number strictly greater than the integer t.
Above(x, t) == x.d > 0 /\ x.n > t * x.d

\* The rows (1-based) of a series that are strictly above t.
RowsAbove(series, t) == {i \in 1..Len(series) : Above(series[i], t)}

Min(S) == CHOOSE x \in S : \A y \in S : x <= y

\* The column positions of a frame whose name is prefix, digits, suffix.
Matched(log_frame, pattern) ==
    {j \in 1..Len(log_frame.columns) :
        LET c == log_frame.columns[j]
            m == Len(c) - Len(pattern.prefix) - Len(pattern.suffix)
        IN  /\ m >= 1
            /\ \A i \in 1..Len(pattern.prefix) : c[i] = pattern.prefix[i]
            /\ \A i \in 1..m : c[Len(pattern.prefix) + i] \in Digits
            /\ \A i \in 1..Len(pattern.suffix) :
                   c[Len(pattern.prefix) + m + i] = pattern.suffix[i]}

\* The iterations of the for loop that have returned.
PlottedColumns == IF pc = "main" THEN {} ELSE 0..(ax_column - 1)

\* The loop is over: every log of the dict has been plotted.
AllPlotted == pc \in {"loop", "done"} /\ ax_column = Len(log_frames)

(***************************************************************************)
(* C1. In threshold-aligned mode the value scanned for the load start is   *)
(* the cross-core utilization mean of the aggregator (values_util), so the *)
(* reference row and the error / no-error outcome of a call are those of   *)
(* scanning values_util, whatever Util:Avg holds and also without it: the  *)
(* call raises exactly when no row of values_util is above the threshold,  *)
(* and returns with the first such row as reference otherwise.             *)
(***************************************************************************)
C1_ScansCoreMean ==
    (Called /\ Aligned) =>
        LET above == RowsAbove(frame_vars.values_util, args.align_threshold[1])
        IN  IF above = {}
            THEN frame_vars.raised # "None" /\ frame_vars.load_start_index = None
            ELSE frame_vars.raised = "None"
                 /\ frame_vars.load_start_index = Some(Min(above) - 1)

(***************************************************************************)
(* C2. In threshold-aligned mode the reference row is the smallest row     *)
(* whose scanned value (the Util:Avg cell) is strictly greater than the    *)
(* threshold: a value equal to the threshold does not qualify, no earlier  *)
(* row qualifies, and a qualifying row is always found when there is one;  *)
(* values 1, 2, 7, 9, 3 with threshold 5 give row 2.  Without a threshold  *)
(* the reference row is always 0.                                          *)
(***************************************************************************)
C2_FirstStrictlyAbove ==
    Called =>
        /\ ~Aligned => frame_vars.load_start_index = Some(0)
        /\ (Aligned /\ HasColumn(LastFrame, UtilAvg)) =>
               LET t == args.align_threshold[1]
                   scanned == [i \in 1..NRows(LastFrame) |->
                                  LastFrame.data[i][CHOOSE j \in 1..Len(LastFrame.columns) :
                                                        LastFrame.columns[j] = UtilAvg]]
                   above == RowsAbove(scanned, t)
               IN  /\ above # {} => frame_vars.load_start_index = Some(Min(above) - 1)
                   /\ frame_vars.load_start_index # None =>
                          /\ Above(scanned[frame_vars.load_start_index[1] + 1], t)
                          /\ scanned[frame_vars.load_start_index[1] + 1] # Float(t)
                          /\ \A i \in 1..frame_vars.load_start_index[1] : ~Above(scanned[i], t)
        /\ (LastFrame = FrameLoad /\ args.align_threshold = Some(5)) =>
               frame_vars.load_start_index = Some(2)

\* A reference row that is not the first row: the rows before it are at the
\* threshold or below it, or missing.
C2_Witness ==
    /\ Called /\ Aligned /\ pc # "raised"
    /\ frame_vars.load_start_index # None
    /\ frame_vars.load_start_index[1] >= 1
    /\ \E i \in 1..frame_vars.load_start_index[1] :
           Column(LastFrame, UtilAvg)[i] = Float(args.align_threshold[1])

(***************************************************************************)
(* C4. In threshold-aligned mode, when no row of the log has a scanned     *)
(* utilization value strictly above the threshold (every value equal to    *)
(* the threshold, every value missing and a frame without rows included),  *)
(* the call picks no reference row and raises, which ends the run: the     *)
(* ValueError "No utilization values over align threshold" (a KeyError     *)
(* when the frame has no Util:Avg column to scan at all).                  *)
(***************************************************************************)
C4_NoCrossingRaises ==
    (Called /\ Aligned
        /\ (HasColumn(LastFrame, UtilAvg) =>
               RowsAbove(Column(LastFrame, UtilAvg), args.align_threshold[1]) = {})) =>
        /\ frame_vars.load_start_index = None
        /\ frame_vars.minutes = None
        /\ pc = "raised"
        /\ error = frame_vars.raised
        /\ error = IF HasColumn(LastFrame, UtilAvg) THEN "ValueError" ELSE "KeyError"

\* A frame with rows, none above the threshold and one exactly at it, has raised.
C4_Witness ==
    /\ Called /\ Aligned /\ pc = "raised" /\ error = "ValueError"
    /\ NRows(LastFrame) >= 1
    /\ \A i \in 1..NRows(LastFrame) :
           Column(LastFrame, UtilAvg)[i] \in {NaN, Float(args.align_threshold[1])}
    /\ \E i \in 1..NRows(LastFrame) :
           Column(LastFrame, UtilAvg)[i] = Float(args.align_threshold[1])

(***************************************************************************)
(* C3. A log in which no column matches the naming convention of one of   *)
(* the three metrics makes the call fail with an EmptyMetricError: such a  *)
(* log is never plotted, and the call made for it raises that error.       *)
(***************************************************************************)
C3_EmptyMetricFails ==
    LET Empty(log_frame) ==
            \E pattern \in {PatternUtil, PatternFreq, PatternTemp} :
                Matched(log_frame, pattern) = {}
    IN  /\ \A c \in PlottedColumns : ~Empty(log_frames[c + 1].value)
        /\ (Called /\ Empty(LastFrame)) => pc = "raised" /\ error = "EmptyMetricError"

(***************************************************************************)
(* C6. For every log and metric the aggregated series has one entry per    *)
(* row, in row order, and the entry of a row is the arithmetic mean of the *)
(* values that are not missing among the columns matched for the metric    *)
(* (10, 20, 30 gives 20; 10, missing, 30 gives 20); a row whose matched    *)
(* columns are all missing has the entry NaN, and the log is not aborted   *)
(* for it: the series are the ones plotted in the panels of the log.       *)
(***************************************************************************)
RECURSIVE SumCells(_, _, _)
SumCells(log_frame, i, J) ==
    IF J = {} THEN 0
    ELSE LET j == CHOOSE j \in J : TRUE
         IN  log_frame.data[i][j].n + SumCells(log_frame, i, J \ {j})

IsMeanSeries(series, log_frame, pattern) ==
    /\ Len(series) = NRows(log_frame)
    /\ \A i \in 1..NRows(log_frame) :
           LET present == {j \in Matched(log_frame, pattern) : log_frame.data[i][j] # NaN}
           IN  IF present = {} THEN series[i] = NaN
               ELSE /\ series[i].d > 0
                    /\ series[i].n * Cardinality(present)
                           = series[i].d * SumCells(log_frame, i, present)

C6_MeanOfPresentValues ==
    Called =>
        /\ IsMeanSeries(frame_vars.values_util, LastFrame, PatternUtil)
        /\ IsMeanSeries(frame_vars.values_freq, LastFrame, PatternFreq)
        /\ IsMeanSeries(frame_vars.values_temp, LastFrame, PatternTemp)
        /\ LastFrame = FrameLoad =>
               /\ frame_vars.values_freq[1] = Float(20)
               /\ frame_vars.values_freq[2] = Float(20)
               /\ frame_vars.values_freq[3] = NaN
        /\ pc # "raised" =>
               /\ axs[<<0, ax_column - 1>>].lines[1].y = frame_vars.values_util
               /\ axs[<<1, ax_column - 1>>].lines[1].y = frame_vars.values_freq
               /\ axs[<<2, ax_column - 1>>].lines[1].y = frame_vars.values_temp

\* A plotted log with a row whose utilization cores are all missing, and a row
\* with one core missing and one present.
C6_Witness ==
    /\ Called /\ pc # "raised"
    /\ Cardinality(Matched(LastFrame, PatternUtil)) >= 2
    /\ \E i \in 1..NRows(LastFrame) :
           \A j \in Matched(LastFrame, PatternUtil) : LastFrame.data[i][j] = NaN
    /\ \E i \in 1..NRows(LastFrame) :
           /\ \E j \in Matched(LastFrame, PatternUtil) : LastFrame.data[i][j] = NaN
           /\ \E j \in Matched(LastFrame, PatternUtil) : LastFrame.data[i][j] # NaN

(***************************************************************************)
(* C5. If the call made for any log of the dict raises, at whatever        *)
(* position and whatever was plotted before, the run aborts and neither    *)
(* fig.savefig nor plt.show is ever called; when every call returns the    *)
(* sink is called exactly once, after the panels of the last log have been *)
(* populated, and it is savefig exactly when a figure path was given.      *)
(***************************************************************************)
C5_SinkOnlyAfterAllLogs ==
    LET Fails(log_frame) ==
            \/ Aligned /\ ~HasColumn(log_frame, UtilAvg)
            \/ Aligned /\ HasColumn(log_frame, UtilAvg)
                 /\ RowsAbove(Column(log_frame, UtilAvg), args.align_threshold[1]) = {}
            \/ ~Aligned /\ NRows(log_frame) = 0
        SomeLogFails == \E i \in 1..Len(log_frames) : Fails(log_frames[i].value)
        Populated(c) ==
            /\ \A r \in 0..2 : Len(axs[<<r, c>>].lines) = 1
            /\ axs[<<0, c>>].title # None
    IN  /\ Len(sink) <= 1
        /\ (pc = "raised" \/ error # "None") => sink = <<>>
        /\ (pc # "main" /\ SomeLogFails) => sink = <<>> /\ pc # "done"
        /\ pc = "raised" => SomeLogFails
        /\ pc = "done" => Len(sink) = 1
        /\ sink # <<>> =>
               /\ pc = "done"
               /\ error = "None"
               /\ \A c \in 0..(Len(log_frames) - 1) : Populated(c)
               /\ sink[1] = IF args.figure_path # None
                            THEN [call |-> "savefig", path |-> args.figure_path]
                            ELSE [call |-> "show", path |-> None]

\* The second log has raised after the first was plotted, and nothing was rendered.
C5_Witness ==
    /\ pc = "raised"
    /\ ax_column = 1
    /\ Len(axs[<<0, 0>>].lines) = 1
    /\ sink = <<>>

(***************************************************************************)
(* C7. For every log with strictly increasing timestamps, the offset of    *)
(* row i is (timestamp[i] - timestamp[reference]) / 60 seconds against the *)
(* reference row of that log only: there is one offset per row, it is 0 at *)
(* the reference row, negative before it, the offsets never decrease, and  *)
(* without a threshold the first offset is 0.  These offsets are the x     *)
(* values of the three panels of the log.                                  *)
(***************************************************************************)
StrictlyIncreasing(index) == \A i \in 1..(Len(index) - 1) : index[i] < index[i + 1]

C7_OffsetsFromOwnReference ==
    (Called /\ pc # "raised" /\ StrictlyIncreasing(LastFrame.index)) =>
        LET m == frame_vars.minutes[1]
            ref == frame_vars.load_start_index[1] + 1
            ts == LastFrame.index
        IN  /\ Len(m) = NRows(LastFrame)
            /\ \A i \in 1..Len(m) : m[i].d > 0 /\ m[i].n * 60 = m[i].d * (ts[i] - ts[ref])
            /\ m[ref] = Float(0)
            /\ \A i \in 1..(ref - 1) : m[i].n < 0
            /\ \A i \in 1..(Len(m) - 1) : m[i].n * m[i + 1].d <= m[i + 1].n * m[i].d
            /\ ~Aligned => m[1] = Float(0)
            /\ \A r \in 0..2 : axs[<<r, ax_column - 1>>].lines[1].x = m

\* The second column holds a log that starts at another wall-clock time than the
\* first, aligned on its own second row, with an offset that is no whole minute.
C7_Witness ==
    /\ Called /\ pc # "raised" /\ Aligned
    /\ ax_column = 2
    /\ StrictlyIncreasing(LastFrame.index)
    /\ log_frames[1].value.index[1] # LastFrame.index[1]
    /\ frame_vars.load_start_index = Some(1)
    /\ frame_vars.minutes[1][1] = Ratio(-3, 2)

(***************************************************************************)
(* C8. For the N >= 1 logs passed to plot_stui_logs the grid has 3 rows    *)
(* and N columns, column c holding log c of the dict; once all logs are    *)
(* plotted every column has the y ranges [-2, 102], [0, 5000], [25, 110]   *)
(* and the x range [lower, minutes_max], lower being 0 without a threshold *)
(* and -1 with one: the same for every column, whatever the data.          *)
(***************************************************************************)
C8_GridShapeAndRanges ==
    /\ pc # "main" =>
           /\ Len(log_frames) >= 1
           /\ shape = <<3, Len(log_frames)>>
           /\ DOMAIN axs = (0..2) \X (0..(Len(log_frames) - 1))
           /\ \A c \in PlottedColumns :
                  /\ axs[<<0, c>>].title = Some(log_frames[c + 1].key)
                  /\ axs[<<0, c>>].lines[1].y = get_mean_series_util(log_frames[c + 1].value)
    /\ AllPlotted =>
           \A c \in 0..(Len(log_frames) - 1) :
               /\ axs[<<0, c>>].ylim = Some(<<-2, 102>>)
               /\ axs[<<1, c>>].ylim = Some(<<0, 5000>>)
               /\ axs[<<2, c>>].ylim = Some(<<25, 110>>)
               /\ \A r \in 0..2 :
                      axs[<<r, c>>].xlim
                          = Some(<<IF args.align_threshold = None THEN 0 ELSE -1, args.minutes>>)

\* Two logs of different lengths plotted with a threshold.
C8_Witness ==
    /\ AllPlotted /\ Aligned
    /\ Len(log_frames) = 2
    /\ NRows(log_frames[1].value) # NRows(log_frames[2].value)

(***************************************************************************)
(* C9. For every minutes value M >= 0 and either mode, every plotted       *)
(* column has its major x ticks at exactly the multiples of 5 from 0 up to *)
(* M, and its minor x ticks at every whole minute of the displayed range,  *)
(* from the lower bound (0, or -1 with a threshold) through M.             *)
(***************************************************************************)
C9_TicksCoverRange ==
    \A c \in PlottedColumns : \A r \in 0..2 :
        LET major == axs[<<r, c>>].xticks[1]
            minor == axs[<<r, c>>].xticks_minor[1]
            lower == IF args.align_threshold = None THEN 0 ELSE -1
        IN  /\ {major[i] : i \in 1..Len(major)} = {t \in 0..args.minutes : t % 5 = 0}
            /\ {minor[i] : i \in 1..Len(minor)} = lower..args.minutes

(***************************************************************************)
(* C10. When main is given k >= 1 log paths the chart has exactly k        *)
(* columns, column i holding the log of path i under the title of that     *)
(* path's label; two distinct paths with the same file name give two       *)
(* columns, and the data of neither log is dropped or replaced.  Stated    *)
(* for command lines that name no path twice.                              *)
(***************************************************************************)
C10_OneColumnPerPath ==
    (pc # "main" /\ \A i, j \in 1..Len(args.log) : args.log[i] = args.log[j] => i = j) =>
        /\ shape = <<3, Len(args.log)>>
        /\ Len(log_frames) = Len(args.log)
        /\ \A i \in 1..Len(args.log) :
               log_frames[i] = [key |-> Name(args.log[i]), value |-> disk[args.log[i]]]

====
